---------------------------- MODULE Spec2Model ----------------------------
(***************************************************************************)
(* TrikGo: location gate, booking flow and geofence editor.                *)
(*                                                                         *)
(* Coordinates are integers: one unit is 0.0001 degree, measured from the  *)
(* south-west corner (14.4225, 120.9845) of the default Pilar Village      *)
(* polygon.  Distances are whole metres, rounded up.  A React state hook   *)
(* is a variable; an event handler or the completion of an awaited call    *)
(* is an action; a value a handler reads from its render closure is        *)
(* captured when the handler starts.                                       *)
(***************************************************************************)
EXTENDS Integers, Sequences, FiniteSets, TLC

\* null of an object-typed state (coordinates, station, driver, record)
Null == [null |-> TRUE]

\* null of a string-typed state (error message, identifier, boolean | null)
NullStr == "null"

Pt(la, ln) == [lat |-> la, lng |-> ln]

(***************************************************************************)
(* Bounds of the model.                                                    *)
(***************************************************************************)
\* position requests of the location gate that may be outstanding at once
MaxInFlight == 2

\* inserts of booking records one flow may issue
MaxBookings == 2

\* driver lookups of the notification handler that may be outstanding at once
MaxLookups == 1

\* vertices the geofence editor may hold
MaxVertices == 4

\* longest polygon among those too short to enclose anything
MaxShortPolygon == 2

\* width of the band of points around the square
GridMargin == 2

\* largest distance a fare is computed for, in kilometres
MaxFareKm == 3

\* most UPDATE events published to the flow's channel and not yet handled
MaxUndelivered == 2

(***************************************************************************)
(* Data of the store and inputs of the environment.                        *)
(***************************************************************************)
\* the eastern half of the default geofence
PilarVillageEasternHalf == << Pt(60, 40), Pt(60, 80), Pt(0, 80), Pt(0, 40) >>

\* default geofence of the migration: (14.4285,120.9845) (14.4285,120.9925)
\* (14.4225,120.9925) (14.4225,120.9845)
PilarVillage == << Pt(60, 0), Pt(60, 80), Pt(0, 80), Pt(0, 0) >>

\* a polygon an administrator may have saved instead
TrianglePolygon == << Pt(0, 0), Pt(60, 0), Pt(60, 80) >>

In1 == Pt(35, 35)       \* (14.4260, 120.9880)
In2 == Pt(10, 70)       \* (14.4235, 120.9915)
Out1 == Pt(-225, -345)  \* (14.4000, 120.9500)

(***************************************************************************)
(* lib/geolocation.ts                                                      *)
(***************************************************************************)
\* lat < num / d + xi for d # 0, in exact arithmetic
LessThanQuotientPlus(lat, num, d, xi) ==
    IF d > 0 THEN (lat - xi) * d < num ELSE (lat - xi) * d > num

\* an edge test whose right operand is evaluated for every edge
QuotientAlwaysEvaluated(point, vi, vj) == TRUE

\* the left operand of && in the edge test: the right operand, with its
\* quotient, is evaluated only when this holds
QuotientEvaluated(point, vi, vj) ==
    (vi.lng > point.lng) # (vj.lng > point.lng)

\* the edge test without the comparison of lat with the crossing
IntersectStraddleOnly(point, vi, vj) ==
    (vi.lng > point.lng) # (vj.lng > point.lng)

\* the edge test of the loop body; the quotient is reached only when the
\* first conjunct holds, that is when yi # yj
Intersect(point, vi, vj) ==
    LET xi == vi.lat
        yi == vi.lng
        xj == vj.lat
        yj == vj.lng
    IN  /\ QuotientEvaluated(point, vi, vj)
        /\ LessThanQuotientPlus(point.lat, (xj - xi) * (point.lng - yi), yj - yi, xi)

\* the for loop: i runs over the vertices, j is the vertex before i
\* (the last one at first); inside is toggled at every crossing
RECURSIVE RayCast(_, _, _, _, _)
RayCast(point, polygon, i, j, inside) ==
    IF i > Len(polygon) THEN inside
    ELSE RayCast(point, polygon, i + 1, i,
                 IF Intersect(point, polygon[i], polygon[j]) THEN ~inside ELSE inside)

\* isPointInPolygon that walks the vertices as an open line: the edge from
\* the last vertex back to the first is left out
isPointInPolygonOpenRing(point, polygon) ==
    IF Len(polygon) < 2 THEN FALSE
    ELSE RayCast(point, polygon, 2, 1, FALSE)

isPointInPolygon(point, polygon) ==
    IF Len(polygon) < 3 THEN FALSE
    ELSE RayCast(point, polygon, 1, Len(polygon), FALSE)


\* stations of the store: the migration's 'SM Southmall' (14.4214, 120.9830),
\* outside the default polygon, and one an administrator added inside it
StationS1 == [id |-> "S1", latitude |-> -11, longitude |-> -15]
StationS2 == [id |-> "S2", latitude |-> 20, longitude |-> 20]
StoreStations == << StationS1, StationS2 >>

\* R * c of calculateDistance, evaluated in IEEE double at the model's
\* points and rounded up to whole metres (so that ceil of the kilometres
\* is kept): rows are << point1, point2, metres >>
DistanceRows ==
    LET S1 == Pt(-11, -15)
        S2 == Pt(20, 20)
        Half == { << In1, In2, 469 >>, << In1, Out1, 5011 >>, << In1, S1, 743 >>,
                  << In1, S2, 233 >>, << In2, Out1, 5178 >>, << In2, S1, 945 >>,
                  << In2, S2, 550 >>, << Out1, S1, 4278 >>, << Out1, S2, 4783 >>,
                  << S1, S2, 511 >> }
    IN  Half \cup { << r[2], r[1], r[3] >> : r \in Half }
             \cup { << p, p, 0 >> : p \in { In1, In2, Out1, S1, S2 } }

\* a distance never reported below one metre
calculateDistanceAtLeastOneMetre(point1, point2) ==
    LET metres == (CHOOSE r \in DistanceRows : r[1] = point1 /\ r[2] = point2)[3]
    IN  IF metres < 1 THEN 1 ELSE metres

calculateDistance(point1, point2) ==
    (CHOOSE r \in DistanceRows : r[1] = point1 /\ r[2] = point2)[3]

VILLAGE_BASE_FARE == 20
OUTBOUND_BASE_FARE == 40
RATE_PER_KM == 10

\* Math.ceil of a distance given in metres, in kilometres
CeilKm(metres) == -((-metres) \div 1000)

Max(a, b) == IF a >= b THEN a ELSE b

\* calculateFare that rounds the kilometres down
calculateFareFloor(tripType, distanceM) ==
    LET baseFare == IF tripType = "village" THEN VILLAGE_BASE_FARE ELSE OUTBOUND_BASE_FARE
        distanceFare == (distanceM \div 1000) * RATE_PER_KM
    IN  Max(baseFare, baseFare + distanceFare)

\* distanceKm is carried in metres
calculateFare(tripType, distanceM) ==
    LET baseFare == IF tripType = "village" THEN VILLAGE_BASE_FARE ELSE OUTBOUND_BASE_FARE
        distanceFare == CeilKm(distanceM) * RATE_PER_KM
    IN  Max(baseFare, baseFare + distanceFare)


(***************************************************************************)
(* State.                                                                  *)
(***************************************************************************)
\* the geofence store: the polygon of the active 'Pilar Village' row
VARIABLES storePolygon

\* pages/Index.tsx, components/booking/LocationGate, hooks/useGeolocation.ts
VARIABLES
    gateGeofence,       \* LocationGate: geofence
    gateFetch,          \* LocationGate: fetchGeofence, "pending" or "done"
    coordinates,        \* useGeolocation: coordinates
    isLoading,          \* useGeolocation: isLoading
    error,              \* useGeolocation: error
    isInsideGeofence,   \* useGeolocation: isInsideGeofence, "null" | "true" | "false"
    pending,            \* handleCheckLocation calls awaiting checkLocation, each with
                        \* the geofence and coordinates of the render that started it
    userLocation,       \* Index: userLocation
    isVerified,         \* Index: isVerified
    timerPending,       \* Index: a setTimeout of handleLocationVerified has not fired
    gateEv              \* history: the last handler of the gate that ran

gateVars == << gateGeofence, gateFetch, coordinates, isLoading, error,
               isInsideGeofence, pending, userLocation, isVerified,
               timerPending, gateEv >>

\* components/booking/BookingFlow.tsx, components/booking/BookingMap.tsx
VARIABLES
    step,               \* BookingFlow: step
    pickupLocation,     \* BookingFlow: pickupLocation
    dropoffLocation,    \* BookingFlow: dropoffLocation
    selectedStation,    \* BookingFlow: selectedStation
    tripType,           \* BookingFlow: tripType
    fare,               \* BookingFlow: fare
    customerPhone,      \* BookingFlow: customerPhone
    bookingId,          \* BookingFlow: bookingId
    assignedDriver,     \* BookingFlow: assignedDriver
    flowGeofence,       \* BookingFlow: geofence
    flowStations,       \* BookingFlow: stations
    flowFetch,          \* BookingFlow.fetchData: "geofence", "stations" or "done"
    mapStations,        \* BookingMap: stations
    mapFetch,           \* BookingMap.fetchData: "pending", "done" or "unmounted"
    insertCalls,        \* booking inserts awaiting the store's answer
    insertCount,        \* booking inserts issued so far
    subscription,       \* the realtime channel of the subscription effect
    lookups,            \* driver lookups of the notification handler awaiting an answer
    flowEv              \* history: the last handler of the flow that ran

flowVars == << step, pickupLocation, dropoffLocation, selectedStation, tripType,
               fare, customerPhone, bookingId, assignedDriver, flowGeofence,
               flowStations, flowFetch, mapStations, mapFetch, insertCalls,
               insertCount, subscription, lookups, flowEv >>

\* components/admin/GeofenceEditor
VARIABLES
    geofenceLoaded,     \* GeofenceEditor: geofence is not null
    vertices,           \* GeofenceEditor: vertices
    originalVertices,   \* GeofenceEditor: originalVertices
    isEditing,          \* GeofenceEditor: isEditing
    isSaving,           \* GeofenceEditor: isSaving
    hasChanges,         \* GeofenceEditor: hasChanges
    editorFetch,        \* GeofenceEditor.fetchGeofence: "pending" or "done"
    saveCalls,          \* updates of handleSave awaiting the store's answer, each
                        \* the vertices of the render that started it
    editorEv,           \* history: the last handler of the editor that ran
    editorArg           \* history: the index that handler was given (0: none)

editorVars == << geofenceLoaded, vertices, originalVertices, isEditing, isSaving,
                 hasChanges, editorFetch, saveCalls, editorEv, editorArg >>

\* lib/geolocation.ts called on its own: the call (function and arguments)
\* and, once it has returned, its result
VARIABLES libCall

\* the bookings row of the flow's booking, the driver dashboards that list
\* it, and the realtime channel of the flow
VARIABLES
    bookingRow,       \* status and driver_id of the row, once it is inserted
    pendingBookings,  \* per dashboard: whether its pendingBookings holds the row
    dashFetch,        \* per dashboard: whether a fetchBookings is outstanding
    channel,          \* UPDATE events published to the flow's joined channel
    storeEv           \* the last update a client sent for the row

dispatchVars == << bookingRow, pendingBookings, dashFetch, channel, storeEv >>

vars == << libCall, storePolygon, dispatchVars, gateVars, flowVars, editorVars >>

\* the users who have the driver dashboard open: one with the admin role,
\* one who is the driver D1
AdminUser == "admin"
DashboardUsers == { AdminUser, "D1" }

StoreEvent(op, by, from, applied, joined) ==
    [op |-> op, by |-> by, from |-> from, applied |-> applied, joined |-> joined]

InitDispatch ==
    /\ bookingRow = [status |-> "pending", driver_id |-> NullStr]
    /\ pendingBookings = [d \in DashboardUsers |-> FALSE]
    /\ dashFetch = [d \in DashboardUsers |-> TRUE]
    /\ channel = << >>
    /\ storeEv = StoreEvent("none", NullStr, NullStr, FALSE, FALSE)

(***************************************************************************)
(* Location gate.                                                          *)
(***************************************************************************)
GatePositions == { In1, In2, Out1 }

\* what getCurrentPosition rejects with: a GeolocationPositionError of code
\* 1, 2, 3 or another code, or the Error of a browser without geolocation
GateFailures == { "PERMISSION_DENIED", "POSITION_UNAVAILABLE", "TIMEOUT",
                  "OTHER_CODE", "NOT_SUPPORTED" }

getGeolocationErrorMessage(code) ==
    CASE code = "PERMISSION_DENIED" ->
           "Location permission denied. Please enable location access in your browser settings."
      [] code = "POSITION_UNAVAILABLE" ->
           "Location information is unavailable. Please try again."
      [] code = "TIMEOUT" ->
           "Location request timed out. Please try again."
      [] OTHER ->
           "An unknown error occurred while getting your location."

\* a catch block that takes every failure for a GeolocationPositionError
ErrorMessageAlwaysStructured(failure) == getGeolocationErrorMessage(failure)

\* the catch block of checkLocation
ErrorMessage(failure) ==
    IF failure # "NOT_SUPPORTED" THEN getGeolocationErrorMessage(failure)
    ELSE "Failed to get your location"

Tri(b) == IF b THEN "true" ELSE "false"

\* op: the handler; outcome and pos: how a check ended and the position it
\* obtained; called: the argument it passed to onLocationVerified, if any
GateEvent(op, outcome, pos, called) ==
    [op |-> op, outcome |-> outcome, pos |-> pos, called |-> called]

\* the event of a check whose position request was rejected with failure
GateFailureEvent(failure) ==
    [op |-> "checkDone", outcome |-> "failed", pos |-> Null, called |-> Null,
     failure |-> failure]

\* Index renders LocationGate until isVerified and userLocation are set
GateMounted == ~isVerified \/ userLocation = Null

\* a button of the status card that runs handleCheckLocation is rendered
\* and enabled
CheckButtonAvailable ==
    \/ coordinates = Null /\ ~isLoading /\ Len(gateGeofence) # 0   \* Get My Location
    \/ error # NullStr                                            \* Try Again
    \/ coordinates # Null /\ isInsideGeofence = "false"           \* Check Again

InitGate ==
    /\ gateGeofence = << >>
    /\ gateFetch = "pending"
    /\ coordinates = Null
    /\ isLoading = FALSE
    /\ error = NullStr
    /\ isInsideGeofence = NullStr
    /\ pending = << >>
    /\ userLocation = Null
    /\ isVerified = FALSE
    /\ timerPending = FALSE
    /\ gateEv = GateEvent("mount", "none", Null, Null)

\* LocationGate.fetchGeofence completes; ok = FALSE is a response without data
GateFetchGeofence(ok) ==
    /\ gateFetch = "pending"
    /\ gateFetch' = "done"
    /\ gateGeofence' = IF ok /\ GateMounted THEN storePolygon ELSE gateGeofence
    /\ gateEv' = GateEvent("fetch", "none", Null, Null)
    /\ UNCHANGED << libCall, dispatchVars, storePolygon, coordinates, isLoading, error, isInsideGeofence,
                    pending, userLocation, isVerified, timerPending >>
    /\ UNCHANGED << flowVars, editorVars >>

\* handleCheckLocation up to its await: checkLocation sets isLoading and
\* clears error, then waits for getCurrentPosition
CheckStart ==
    /\ GateMounted
    /\ CheckButtonAvailable
    /\ Len(pending) < MaxInFlight
    /\ isLoading' = TRUE
    /\ error' = NullStr
    /\ pending' = Append(pending, [geofence |-> gateGeofence, coordinates |-> coordinates])
    /\ gateEv' = GateEvent("checkStart", "none", Null, Null)
    /\ UNCHANGED << libCall, dispatchVars, storePolygon, gateGeofence, gateFetch, coordinates,
                    isInsideGeofence, userLocation, isVerified, timerPending >>
    /\ UNCHANGED << flowVars, editorVars >>

Without(seq, i) == SubSeq(seq, 1, i - 1) \o SubSeq(seq, i + 1, Len(seq))

\* the argument handleCheckLocation passes to onLocationVerified after the
\* await (Null: no call): the coordinates of the render that started it
VerifiedArgument(inside, renderCoordinates) ==
    IF inside /\ renderCoordinates # Null THEN renderCoordinates ELSE Null

\* getCurrentPosition resolves for the i-th outstanding call: the try block
\* of checkLocation, then the rest of handleCheckLocation and
\* Index.handleLocationVerified.  The hook's setters do nothing once the
\* gate is unmounted; the callback of Index still runs.
CheckSucceed(i, position) ==
    LET call == pending[i]
        inside == isPointInPolygon(position, call.geofence)
        arg == VerifiedArgument(inside, call.coordinates)
    IN  /\ pending' = Without(pending, i)
        /\ IF GateMounted
           THEN /\ coordinates' = position
                /\ isInsideGeofence' = Tri(inside)
                /\ isLoading' = FALSE
           ELSE UNCHANGED << coordinates, isInsideGeofence, isLoading >>
        /\ IF arg # Null
           THEN userLocation' = arg /\ timerPending' = TRUE
           ELSE UNCHANGED << userLocation, timerPending >>
        /\ gateEv' = GateEvent("checkDone", IF inside THEN "inside" ELSE "outside",
                               position, arg)
        /\ UNCHANGED << libCall, dispatchVars, storePolygon, gateGeofence, gateFetch, error, isVerified >>
        /\ UNCHANGED << flowVars, editorVars >>

\* getCurrentPosition rejects for the i-th outstanding call: the catch block
CheckFail(i, failure) ==
    /\ pending' = Without(pending, i)
    /\ IF GateMounted
       THEN error' = ErrorMessage(failure) /\ isLoading' = FALSE
       ELSE UNCHANGED << error, isLoading >>
    /\ gateEv' = GateFailureEvent(failure)
    /\ UNCHANGED << libCall, dispatchVars, storePolygon, gateGeofence, gateFetch, coordinates,
                    isInsideGeofence, userLocation, isVerified, timerPending >>
    /\ UNCHANGED << flowVars, editorVars >>

\* the timeout of handleLocationVerified fires; later timeouts set the same
\* value, so one flag stands for all that are outstanding
TimerFire ==
    /\ timerPending
    /\ timerPending' = FALSE
    /\ isVerified' = TRUE
    /\ gateEv' = GateEvent("timer", "none", Null, Null)
    /\ UNCHANGED << libCall, dispatchVars, storePolygon, gateGeofence, gateFetch, coordinates, isLoading,
                    error, isInsideGeofence, pending, userLocation >>
    /\ UNCHANGED << flowVars, editorVars >>

NextGate ==
    \/ \E ok \in BOOLEAN : GateFetchGeofence(ok)
    \/ CheckStart
    \/ \E i \in 1..Len(pending) : \E position \in GatePositions : CheckSucceed(i, position)
    \/ \E i \in 1..Len(pending) : \E failure \in GateFailures : CheckFail(i, failure)
    \/ TimerFire


(***************************************************************************)
(* Booking flow.                                                           *)
(***************************************************************************)
\* where a tap on the booking map may land
MapPoints == { In1, In2, Out1 }

Phones == { "", "09171234567" }

\* status and driver_id of an update of the subscribed booking row
BookingStatuses == { "pending", "accepted", "in_progress", "completed", "cancelled" }
DriverIds == { NullStr, "D1", "D2" }

Driver(id) == [id |-> id]

FlowEvent(op, coords, id) == [op |-> op, coords |-> coords, id |-> id]

InitFlow ==
    /\ step = "pickup"
    /\ pickupLocation = Null
    /\ dropoffLocation = Null
    /\ selectedStation = Null
    /\ tripType = "village"
    /\ fare = 0
    /\ customerPhone = ""
    /\ bookingId = NullStr
    /\ assignedDriver = Null
    /\ flowGeofence = << >>
    /\ flowStations = << >>
    /\ flowFetch = "geofence"
    /\ mapStations = << >>
    /\ mapFetch = "pending"
    /\ insertCalls = << >>
    /\ insertCount = 0
    /\ subscription = Null
    /\ lookups = << >>
    /\ flowEv = FlowEvent("mount", Null, NullStr)

\* a fare effect that does not run again once a fare is set
FareEffectOnce(pickup, dropoff, type, oldFare) ==
    IF pickup # Null /\ dropoff # Null /\ oldFare = 0
    THEN calculateFare(type, calculateDistance(pickup, dropoff))
    ELSE oldFare

\* the fare effect, run after a render in which pickupLocation,
\* dropoffLocation or tripType changed: the value of fare afterwards
FareEffect(pickup, dropoff, type, oldFare) ==
    IF pickup # Null /\ dropoff # Null
    THEN calculateFare(type, calculateDistance(pickup, dropoff))
    ELSE oldFare

\* a subscription effect without the cleanup of the old channel
SubscriptionEffectNoCleanup(newId) ==
    IF newId = bookingId \/ newId = NullStr THEN subscription
    ELSE [id |-> newId, joined |-> FALSE]

\* the subscription effect, run when bookingId becomes newId: the cleanup of
\* the old channel, then a channel filtered to newId that is yet to join
SubscriptionEffect(newId) ==
    IF newId = bookingId THEN subscription
    ELSE IF newId = NullStr THEN Null
    ELSE [id |-> newId, joined |-> FALSE]

\* BookingFlow renders BookingMap in these steps only; a map that is
\* rendered anew starts empty and fetches, one that is removed drops what
\* its fetch answers
MapSteps == { "pickup", "dropoff" }

MapLifecycle ==
    IF step' \in MapSteps
    THEN IF step \in MapSteps
         THEN UNCHANGED << mapStations, mapFetch >>
         ELSE mapStations' = << >> /\ mapFetch' = "pending"
    ELSE mapStations' = << >> /\ mapFetch' = "unmounted"

\* BookingFlow.fetchData, first await
FlowFetchGeofence(ok) ==
    /\ flowFetch = "geofence"
    /\ flowFetch' = "stations"
    /\ flowGeofence' = IF ok THEN storePolygon ELSE flowGeofence
    /\ flowEv' = FlowEvent("fetchGeofence", Null, NullStr)
    /\ UNCHANGED << step, pickupLocation, dropoffLocation, selectedStation, tripType,
                    fare, customerPhone, bookingId, assignedDriver, flowStations,
                    mapStations, mapFetch, insertCalls, insertCount, subscription,
                    lookups >>
    /\ UNCHANGED << libCall, dispatchVars, storePolygon, gateVars, editorVars >>

\* BookingFlow.fetchData, second await
FlowFetchStations(ok) ==
    /\ flowFetch = "stations"
    /\ flowFetch' = "done"
    /\ flowStations' = IF ok THEN StoreStations ELSE flowStations
    /\ flowEv' = FlowEvent("fetchStations", Null, NullStr)
    /\ UNCHANGED << step, pickupLocation, dropoffLocation, selectedStation, tripType,
                    fare, customerPhone, bookingId, assignedDriver, flowGeofence,
                    mapStations, mapFetch, insertCalls, insertCount, subscription,
                    lookups >>
    /\ UNCHANGED << libCall, dispatchVars, storePolygon, gateVars, editorVars >>

\* BookingMap.fetchData: its stations answer (its geofence is only drawn)
MapFetchStations(ok) ==
    /\ mapFetch = "pending"
    /\ mapFetch' = "done"
    /\ mapStations' = IF ok THEN StoreStations ELSE mapStations
    /\ flowEv' = FlowEvent("mapStations", Null, NullStr)
    /\ UNCHANGED << step, pickupLocation, dropoffLocation, selectedStation, tripType,
                    fare, customerPhone, bookingId, assignedDriver, flowGeofence,
                    flowStations, flowFetch, insertCalls, insertCount, subscription,
                    lookups >>
    /\ UNCHANGED << libCall, dispatchVars, storePolygon, gateVars, editorVars >>

\* handlePickupSelect without its validation
handlePickupSelectUnchecked(coords) ==
    /\ pickupLocation' = coords
    /\ step' = "dropoff"

handlePickupSelect(coords) ==
    IF ~isPointInPolygon(coords, flowGeofence)
    THEN UNCHANGED << pickupLocation, step >>
    ELSE /\ pickupLocation' = coords
         /\ step' = "dropoff"

\* stations.find(s => s.id === stationId): the first match, or Null
FindStation(stations, stationId) ==
    IF \E k \in 1..Len(stations) : stations[k].id = stationId
    THEN stations[CHOOSE k \in 1..Len(stations) :
                    /\ stations[k].id = stationId
                    /\ \A m \in 1..(k - 1) : stations[m].id # stationId]
    ELSE Null

\* handleDropoffSelect whose map-tap branch does not reclassify a point
\* outside the geofence
handleDropoffSelectSticky(coords, stationId) ==
    /\ dropoffLocation' = coords
    /\ IF stationId # NullStr
       THEN LET station == FindStation(flowStations, stationId)
            IN  IF station # Null
                THEN selectedStation' = station /\ tripType' = "outbound"
                ELSE UNCHANGED << selectedStation, tripType >>
       ELSE IF isPointInPolygon(coords, flowGeofence)
            THEN tripType' = "village" /\ selectedStation' = Null
            ELSE UNCHANGED tripType /\ selectedStation' = Null
    /\ step' = "confirm"

\* what handleDropoffSelect leaves in tripType and selectedStation, given
\* what they held before the call
dropoffOutcome(coords, stationId, oldTripType, oldStation) ==
    IF stationId # NullStr
    THEN LET station == FindStation(flowStations, stationId)
         IN  IF station # Null
             THEN [tripType |-> "outbound", selectedStation |-> station]
             ELSE [tripType |-> oldTripType, selectedStation |-> oldStation]
    ELSE IF isPointInPolygon(coords, flowGeofence)
         THEN [tripType |-> "village", selectedStation |-> Null]
         ELSE [tripType |-> "outbound", selectedStation |-> Null]

handleDropoffSelect(coords, stationId) ==
    /\ dropoffLocation' = coords
    /\ tripType' = dropoffOutcome(coords, stationId, tripType, selectedStation).tripType
    /\ selectedStation' =
           dropoffOutcome(coords, stationId, tripType, selectedStation).selectedStation
    /\ step' = "confirm"

\* MapClickHandler: a tap on the map, in the mode the flow's step gives
MapClick(coords) ==
    /\ step \in MapSteps
    /\ IF step = "pickup"
       THEN /\ handlePickupSelect(coords)
            /\ UNCHANGED << dropoffLocation, selectedStation, tripType >>
            /\ flowEv' = FlowEvent("pickupSelect", coords, NullStr)
       ELSE /\ handleDropoffSelect(coords, NullStr)
            /\ UNCHANGED pickupLocation
            /\ flowEv' = FlowEvent("dropoffSelect", coords, NullStr)
    /\ fare' = FareEffect(pickupLocation', dropoffLocation', tripType', fare)
    /\ MapLifecycle
    /\ UNCHANGED << customerPhone, bookingId, assignedDriver, flowGeofence, flowStations,
                    flowFetch, insertCalls, insertCount, subscription, lookups >>
    /\ UNCHANGED << libCall, dispatchVars, storePolygon, gateVars, editorVars >>

\* a tap on the k-th station marker of BookingMap, shown in mode 'dropoff'
StationMarkerClick(k) ==
    /\ step = "dropoff"
    /\ k \in 1..Len(mapStations)
    /\ LET station == mapStations[k]
           coords == Pt(station.latitude, station.longitude)
       IN  /\ handleDropoffSelect(coords, station.id)
           /\ flowEv' = FlowEvent("dropoffSelect", coords, station.id)
    /\ fare' = FareEffect(pickupLocation, dropoffLocation', tripType', fare)
    /\ MapLifecycle
    /\ UNCHANGED << pickupLocation, customerPhone, bookingId, assignedDriver, flowGeofence,
                    flowStations, flowFetch, insertCalls, insertCount, subscription,
                    lookups >>
    /\ UNCHANGED << libCall, dispatchVars, storePolygon, gateVars, editorVars >>

\* the back arrow of the header
Back ==
    /\ step \in { "dropoff", "confirm" }
    /\ step' = IF step = "dropoff" THEN "pickup" ELSE "dropoff"
    /\ MapLifecycle
    /\ flowEv' = FlowEvent("back", Null, NullStr)
    /\ UNCHANGED << pickupLocation, dropoffLocation, selectedStation, tripType, fare,
                    customerPhone, bookingId, assignedDriver, flowGeofence, flowStations,
                    flowFetch, insertCalls, insertCount, subscription, lookups >>
    /\ UNCHANGED << libCall, dispatchVars, storePolygon, gateVars, editorVars >>

\* the phone input of the confirmation view
SetCustomerPhone(phone) ==
    /\ step = "confirm"
    /\ phone # customerPhone
    /\ customerPhone' = phone
    /\ flowEv' = FlowEvent("phone", Null, NullStr)
    /\ UNCHANGED << step, pickupLocation, dropoffLocation, selectedStation, tripType, fare,
                    bookingId, assignedDriver, flowGeofence, flowStations, flowFetch,
                    mapStations, mapFetch, insertCalls, insertCount, subscription,
                    lookups >>
    /\ UNCHANGED << libCall, dispatchVars, storePolygon, gateVars, editorVars >>

\* the object handleConfirmBooking passes to insert
BookingRecord ==
    [ customer_phone |-> IF customerPhone = "" THEN NullStr ELSE customerPhone,
      pickup |-> pickupLocation,
      dropoff |-> dropoffLocation,
      station_id |-> IF selectedStation = Null THEN NullStr ELSE selectedStation.id,
      trip_type |-> tripType,
      fare |-> fare,
      status |-> "pending" ]

\* handleConfirmBooking up to its await
handleConfirmBooking ==
    IF pickupLocation = Null \/ dropoffLocation = Null
    THEN UNCHANGED << step, insertCalls, insertCount >>
    ELSE /\ step' = "searching"
         /\ insertCalls' = Append(insertCalls, BookingRecord)
         /\ insertCount' = insertCount + 1

\* the Confirm Booking button of the confirmation view
ConfirmClick ==
    /\ step = "confirm"
    /\ insertCount < MaxBookings
    /\ handleConfirmBooking
    /\ MapLifecycle
    /\ flowEv' = FlowEvent("confirm", Null, NullStr)
    /\ UNCHANGED << pickupLocation, dropoffLocation, selectedStation, tripType, fare,
                    customerPhone, bookingId, assignedDriver, flowGeofence, flowStations,
                    flowFetch, subscription, lookups >>
    /\ UNCHANGED << libCall, dispatchVars, storePolygon, gateVars, editorVars >>

\* the insert answers with the new row, whose identifier the store assigned
\* (here the number of the insert): setBookingId, then the subscription effect
InsertSucceed ==
    /\ insertCalls # << >>
    /\ insertCalls' = Tail(insertCalls)
    /\ bookingId' = ToString(insertCount)
    /\ subscription' = SubscriptionEffect(bookingId')
    /\ flowEv' = FlowEvent("insertOk", Null, bookingId')
    /\ UNCHANGED << step, pickupLocation, dropoffLocation, selectedStation, tripType, fare,
                    customerPhone, assignedDriver, flowGeofence, flowStations, flowFetch,
                    mapStations, mapFetch, insertCount, lookups >>
    /\ UNCHANGED << libCall, dispatchVars, storePolygon, gateVars, editorVars >>

\* an error branch that sends the record again
InsertFailRetries ==
    /\ insertCalls # << >>
    /\ insertCalls' = Append(Tail(insertCalls), Head(insertCalls))
    /\ insertCount' = insertCount + 1
    /\ step' = "confirm"
    /\ MapLifecycle
    /\ flowEv' = FlowEvent("insertError", Null, NullStr)
    /\ UNCHANGED << pickupLocation, dropoffLocation, selectedStation, tripType, fare,
                    customerPhone, bookingId, assignedDriver, flowGeofence, flowStations,
                    flowFetch, subscription, lookups >>
    /\ UNCHANGED << libCall, dispatchVars, storePolygon, gateVars, editorVars >>

\* the insert answers with an error
InsertFail ==
    /\ insertCalls # << >>
    /\ insertCalls' = Tail(insertCalls)
    /\ step' = "confirm"
    /\ MapLifecycle
    /\ flowEv' = FlowEvent("insertError", Null, NullStr)
    /\ UNCHANGED << pickupLocation, dropoffLocation, selectedStation, tripType, fare,
                    customerPhone, bookingId, assignedDriver, flowGeofence, flowStations,
                    flowFetch, insertCount, subscription, lookups >>
    /\ UNCHANGED << libCall, dispatchVars, storePolygon, gateVars, editorVars >>

\* the channel of the subscription effect has joined
SubscriptionJoined ==
    /\ subscription # Null
    /\ ~subscription.joined
    /\ subscription' = [subscription EXCEPT !.joined = TRUE]
    /\ flowEv' = FlowEvent("joined", Null, NullStr)
    /\ UNCHANGED << step, pickupLocation, dropoffLocation, selectedStation, tripType, fare,
                    customerPhone, bookingId, assignedDriver, flowGeofence, flowStations,
                    flowFetch, mapStations, mapFetch, insertCalls, insertCount, lookups >>
    /\ UNCHANGED << libCall, dispatchVars, storePolygon, gateVars, editorVars >>

\* a handler that takes 'completed' only once a driver is matched
handleBookingUpdateMatchedOnly(status, driverId) ==
    IF status = "accepted" /\ driverId # NullStr
    THEN lookups' = Append(lookups, driverId) /\ UNCHANGED step
    ELSE IF status = "completed" /\ step = "matched"
         THEN step' = "complete" /\ UNCHANGED lookups
         ELSE UNCHANGED << step, lookups >>

\* a handler that shows the completion view for a cancelled booking too
handleBookingUpdateCancelledCompletes(status, driverId) ==
    IF status = "accepted" /\ driverId # NullStr
    THEN lookups' = Append(lookups, driverId) /\ UNCHANGED step
    ELSE IF status \in { "completed", "cancelled" }
         THEN step' = "complete" /\ UNCHANGED lookups
         ELSE UNCHANGED << step, lookups >>

\* the postgres_changes handler up to its await
handleBookingUpdate(status, driverId) ==
    IF status = "accepted" /\ driverId # NullStr
    THEN lookups' = Append(lookups, driverId) /\ UNCHANGED step
    ELSE IF status = "completed"
         THEN step' = "complete" /\ UNCHANGED lookups
         ELSE UNCHANGED << step, lookups >>

\* the channel delivers an update of the subscribed row to the given status
\* and driver_id
Notification(status, driverId) ==
    /\ subscription # Null
    /\ subscription.joined
    /\ (status = "accepted" /\ driverId # NullStr) => Len(lookups) < MaxLookups
    /\ handleBookingUpdate(status, driverId)
    /\ MapLifecycle
    /\ flowEv' = FlowEvent("notify:" \o status, Null, driverId)
    /\ UNCHANGED << pickupLocation, dropoffLocation, selectedStation, tripType, fare,
                    customerPhone, bookingId, assignedDriver, flowGeofence, flowStations,
                    flowFetch, insertCalls, insertCount, subscription >>
    /\ UNCHANGED << libCall, dispatchVars, storePolygon, gateVars, editorVars >>

\* a handler that shows the matched view without storing the driver
afterDriverQueryStepOnly(driverId, found) ==
    IF found
    THEN step' = "matched" /\ UNCHANGED assignedDriver
    ELSE UNCHANGED << assignedDriver, step >>

\* the postgres_changes handler after its await: the driver query answered
\* with the driver or with no data
afterDriverQuery(driverId, found) ==
    IF found
    THEN assignedDriver' = Driver(driverId) /\ step' = "matched"
    ELSE UNCHANGED << assignedDriver, step >>

\* the driver query answers for the i-th outstanding lookup
LookupAnswer(i, found) ==
    /\ i \in 1..Len(lookups)
    /\ lookups' = Without(lookups, i)
    /\ afterDriverQuery(lookups[i], found)
    /\ MapLifecycle
    /\ flowEv' = FlowEvent(IF found THEN "driverFound" ELSE "driverMissing", Null, lookups[i])
    /\ UNCHANGED << pickupLocation, dropoffLocation, selectedStation, tripType, fare,
                    customerPhone, bookingId, flowGeofence, flowStations, flowFetch,
                    insertCalls, insertCount, subscription >>
    /\ UNCHANGED << libCall, dispatchVars, storePolygon, gateVars, editorVars >>

\* Book Another Ride; neither tripType nor fare is reset, and the fare
\* effect finds no pickup and drop-off to compute from
handleNewBooking ==
    /\ step = "complete"
    /\ step' = "pickup"
    /\ pickupLocation' = Null
    /\ dropoffLocation' = Null
    /\ selectedStation' = Null
    /\ bookingId' = NullStr
    /\ assignedDriver' = Null
    /\ fare' = FareEffect(pickupLocation', dropoffLocation', tripType, fare)
    /\ subscription' = SubscriptionEffect(bookingId')
    /\ MapLifecycle
    /\ flowEv' = FlowEvent("newBooking", Null, NullStr)
    /\ UNCHANGED << tripType, customerPhone, flowGeofence, flowStations, flowFetch,
                    insertCalls, insertCount, lookups >>
    /\ UNCHANGED << libCall, dispatchVars, storePolygon, gateVars, editorVars >>

NextFlow ==
    \/ \E ok \in BOOLEAN : FlowFetchGeofence(ok)
    \/ \E ok \in BOOLEAN : FlowFetchStations(ok)
    \/ \E ok \in BOOLEAN : MapFetchStations(ok)
    \/ \E coords \in MapPoints : MapClick(coords)
    \/ \E k \in 1..Len(mapStations) : StationMarkerClick(k)
    \/ Back
    \/ \E phone \in Phones : SetCustomerPhone(phone)
    \/ ConfirmClick
    \/ InsertSucceed
    \/ InsertFail
    \/ SubscriptionJoined
    \/ \E status \in BookingStatuses : \E driverId \in DriverIds : Notification(status, driverId)
    \/ \E i \in 1..Len(lookups) : \E found \in BOOLEAN : LookupAnswer(i, found)
    \/ handleNewBooking

(***************************************************************************)
(* Geofence editor.                                                        *)
(***************************************************************************)
\* where a click on the editor's map or the end of a drag may land
EditorPoints == { Pt(0, 0), Pt(60, 80) }

InitEditor ==
    /\ geofenceLoaded = FALSE
    /\ vertices = << >>
    /\ originalVertices = << >>
    /\ isEditing = FALSE
    /\ isSaving = FALSE
    /\ hasChanges = FALSE
    /\ editorFetch = "pending"
    /\ saveCalls = << >>
    /\ editorEv = "mount"
    /\ editorArg = 0

\* the effect on [vertices, originalVertices]: the value of hasChanges
\* afterwards (JSON.stringify compares the two as ordered sequences)
HasChangesEffect(current, original, old) ==
    IF Len(original) > 0 THEN current # original ELSE old

\* GeofenceEditor.fetchGeofence answers; ok = FALSE is no row or an error
EditorFetchGeofence(ok) ==
    /\ editorFetch = "pending"
    /\ editorFetch' = "done"
    /\ IF ok
       THEN /\ geofenceLoaded' = TRUE
            /\ vertices' = storePolygon
            /\ originalVertices' = storePolygon
       ELSE UNCHANGED << geofenceLoaded, vertices, originalVertices >>
    /\ hasChanges' = HasChangesEffect(vertices', originalVertices', hasChanges)
    /\ editorEv' = IF ok THEN "load" ELSE "loadError"
    /\ editorArg' = 0
    /\ UNCHANGED << isEditing, isSaving, saveCalls >>
    /\ UNCHANGED << libCall, dispatchVars, storePolygon, gateVars, flowVars >>

\* the Edit Boundary button
EditBoundary ==
    /\ ~isEditing
    /\ isEditing' = TRUE
    /\ editorEv' = "edit"
    /\ editorArg' = 0
    /\ UNCHANGED << geofenceLoaded, vertices, originalVertices, isSaving, hasChanges,
                    editorFetch, saveCalls >>
    /\ UNCHANGED << libCall, dispatchVars, storePolygon, gateVars, flowVars >>

handleVertexMove(index, newPos) == [vertices EXCEPT ![index] = newPos]

\* an addition that puts the new vertex first
handleVertexAddFirst(pos) == << pos >> \o vertices

handleVertexAdd(pos) == Append(vertices, pos)

\* a removal that drops the last vertex, whichever was asked for
handleVertexRemoveLast(index) == SubSeq(vertices, 1, Len(vertices) - 1)

handleVertexRemove(index) == Without(vertices, index)

\* a click handler that adds the vertex in Viewing too
EditorMapClickAlways(pos) ==
    /\ Len(vertices) < MaxVertices
    /\ vertices' = handleVertexAdd(pos)
    /\ hasChanges' = HasChangesEffect(vertices', originalVertices, hasChanges)
    /\ editorEv' = "click"
    /\ editorArg' = 0
    /\ UNCHANGED << geofenceLoaded, originalVertices, isEditing, isSaving, editorFetch,
                    saveCalls >>
    /\ UNCHANGED << libCall, dispatchVars, storePolygon, gateVars, flowVars >>

\* PolygonEditor: a click on the map
EditorMapClick(pos) ==
    /\ Len(vertices) < MaxVertices
    /\ vertices' = IF isEditing THEN handleVertexAdd(pos) ELSE vertices
    /\ hasChanges' = HasChangesEffect(vertices', originalVertices, hasChanges)
    /\ editorEv' = "click"
    /\ editorArg' = 0
    /\ UNCHANGED << geofenceLoaded, originalVertices, isEditing, isSaving, editorFetch,
                    saveCalls >>
    /\ UNCHANGED << libCall, dispatchVars, storePolygon, gateVars, flowVars >>

\* PolygonEditor: a vertex marker, rendered while editing, is dragged
VertexDrag(index, pos) ==
    /\ isEditing
    /\ index \in 1..Len(vertices)
    /\ vertices' = handleVertexMove(index, pos)
    /\ hasChanges' = HasChangesEffect(vertices', originalVertices, hasChanges)
    /\ editorEv' = "drag"
    /\ editorArg' = 0
    /\ UNCHANGED << geofenceLoaded, originalVertices, isEditing, isSaving, editorFetch,
                    saveCalls >>
    /\ UNCHANGED << libCall, dispatchVars, storePolygon, gateVars, flowVars >>

\* the contextmenu handler without its floor of three vertices
VertexContextMenuNoFloor(index) ==
    /\ isEditing
    /\ index \in 1..Len(vertices)
    /\ vertices' = handleVertexRemove(index)
    /\ hasChanges' = HasChangesEffect(vertices', originalVertices, hasChanges)
    /\ editorEv' = IF Len(vertices) > 3 THEN "contextmenu" ELSE "contextmenuRefused"
    /\ editorArg' = index
    /\ UNCHANGED << geofenceLoaded, originalVertices, isEditing, isSaving, editorFetch,
                    saveCalls >>
    /\ UNCHANGED << libCall, dispatchVars, storePolygon, gateVars, flowVars >>

\* PolygonEditor: a right-click on a vertex marker
VertexContextMenu(index) ==
    /\ isEditing
    /\ index \in 1..Len(vertices)
    /\ vertices' = IF Len(vertices) > 3 THEN handleVertexRemove(index) ELSE vertices
    /\ hasChanges' = HasChangesEffect(vertices', originalVertices, hasChanges)
    /\ editorEv' = IF Len(vertices) > 3 THEN "contextmenu" ELSE "contextmenuRefused"
    /\ editorArg' = index
    /\ UNCHANGED << geofenceLoaded, originalVertices, isEditing, isSaving, editorFetch,
                    saveCalls >>
    /\ UNCHANGED << libCall, dispatchVars, storePolygon, gateVars, flowVars >>

\* handleReset that empties the polygon
handleResetClears ==
    /\ isEditing
    /\ hasChanges
    /\ vertices' = << >>
    /\ hasChanges' = HasChangesEffect(vertices', originalVertices, hasChanges)
    /\ editorEv' = "reset"
    /\ editorArg' = 0
    /\ UNCHANGED << geofenceLoaded, originalVertices, isEditing, isSaving, editorFetch,
                    saveCalls >>
    /\ UNCHANGED << libCall, dispatchVars, storePolygon, gateVars, flowVars >>

\* the reset button, disabled without changes
handleReset ==
    /\ isEditing
    /\ hasChanges
    /\ vertices' = originalVertices
    /\ hasChanges' = HasChangesEffect(vertices', originalVertices, hasChanges)
    /\ editorEv' = "reset"
    /\ editorArg' = 0
    /\ UNCHANGED << geofenceLoaded, originalVertices, isEditing, isSaving, editorFetch,
                    saveCalls >>
    /\ UNCHANGED << libCall, dispatchVars, storePolygon, gateVars, flowVars >>

\* the clear button
handleClear ==
    /\ isEditing
    /\ vertices' = << >>
    /\ hasChanges' = HasChangesEffect(vertices', originalVertices, hasChanges)
    /\ editorEv' = "clear"
    /\ editorArg' = 0
    /\ UNCHANGED << geofenceLoaded, originalVertices, isEditing, isSaving, editorFetch,
                    saveCalls >>
    /\ UNCHANGED << libCall, dispatchVars, storePolygon, gateVars, flowVars >>

\* Cancel that leaves the editing mode with the edits in place
CancelKeepsEdits ==
    /\ isEditing
    /\ vertices' = vertices
    /\ isEditing' = FALSE
    /\ hasChanges' = HasChangesEffect(vertices', originalVertices, hasChanges)
    /\ editorEv' = "cancel"
    /\ editorArg' = 0
    /\ UNCHANGED << geofenceLoaded, originalVertices, isSaving, editorFetch, saveCalls >>
    /\ UNCHANGED << libCall, dispatchVars, storePolygon, gateVars, flowVars >>

\* the Cancel button
Cancel ==
    /\ isEditing
    /\ vertices' = originalVertices
    /\ isEditing' = FALSE
    /\ hasChanges' = HasChangesEffect(vertices', originalVertices, hasChanges)
    /\ editorEv' = "cancel"
    /\ editorArg' = 0
    /\ UNCHANGED << geofenceLoaded, originalVertices, isSaving, editorFetch, saveCalls >>
    /\ UNCHANGED << libCall, dispatchVars, storePolygon, gateVars, flowVars >>

\* handleSave without its validation
handleSaveUnchecked ==
    /\ isSaving' = TRUE
    /\ saveCalls' = Append(saveCalls, vertices)
    /\ editorEv' = "save"
    /\ editorArg' = 0
    /\ UNCHANGED << geofenceLoaded, vertices, originalVertices, isEditing, hasChanges,
                    editorFetch >>
    /\ UNCHANGED << libCall, dispatchVars, storePolygon, gateVars, flowVars >>

\* handleSave up to its await
handleSave ==
    /\ editorArg' = 0
    /\ IF ~geofenceLoaded \/ Len(vertices) < 3
       THEN /\ editorEv' = "saveRefused"
            /\ UNCHANGED << isSaving, saveCalls >>
       ELSE /\ isSaving' = TRUE
            /\ saveCalls' = Append(saveCalls, vertices)
            /\ editorEv' = "save"
    /\ UNCHANGED << geofenceLoaded, vertices, originalVertices, isEditing, hasChanges,
                    editorFetch >>
    /\ UNCHANGED << libCall, dispatchVars, storePolygon, gateVars, flowVars >>

\* the Save button, disabled while saving or below 3 vertices
SaveClick ==
    /\ isEditing
    /\ ~isSaving
    /\ Len(vertices) >= 3
    /\ handleSave

\* handleSave called while editing although fewer than 3 vertices are held,
\* which the Save button does not allow
SaveCall ==
    /\ isEditing
    /\ Len(vertices) < 3
    /\ handleSave

\* what handleSave sets once the update has answered without error: the
\* new originalVertices, a copy of the vertices of the render that started it
SavedBaseline(renderVertices) == renderVertices

\* an update that writes the vertices held when it answers
SaveSucceedWritesCurrent ==
    /\ saveCalls # << >>
    /\ saveCalls' = Tail(saveCalls)
    /\ storePolygon' = vertices
    /\ isSaving' = FALSE
    /\ originalVertices' = SavedBaseline(Head(saveCalls))
    /\ isEditing' = FALSE
    /\ hasChanges' = HasChangesEffect(vertices, originalVertices', hasChanges)
    /\ editorEv' = "saveOk"
    /\ editorArg' = 0
    /\ UNCHANGED << geofenceLoaded, vertices, editorFetch >>
    /\ UNCHANGED << libCall, dispatchVars, gateVars, flowVars >>

\* the update answers without error: the store holds the polygon sent
SaveSucceed ==
    /\ saveCalls # << >>
    /\ saveCalls' = Tail(saveCalls)
    /\ storePolygon' = Head(saveCalls)
    /\ isSaving' = FALSE
    /\ originalVertices' = SavedBaseline(Head(saveCalls))
    /\ isEditing' = FALSE
    /\ hasChanges' = HasChangesEffect(vertices, originalVertices', hasChanges)
    /\ editorEv' = "saveOk"
    /\ editorArg' = 0
    /\ UNCHANGED << geofenceLoaded, vertices, editorFetch >>
    /\ UNCHANGED << libCall, dispatchVars, gateVars, flowVars >>

\* the error branch taken as the success branch is, but for the store
SaveFailCommits ==
    /\ saveCalls # << >>
    /\ saveCalls' = Tail(saveCalls)
    /\ isSaving' = FALSE
    /\ originalVertices' = Head(saveCalls)
    /\ isEditing' = FALSE
    /\ hasChanges' = HasChangesEffect(vertices, originalVertices', hasChanges)
    /\ editorEv' = "saveError"
    /\ editorArg' = 0
    /\ UNCHANGED << geofenceLoaded, vertices, editorFetch >>
    /\ UNCHANGED << libCall, dispatchVars, storePolygon, gateVars, flowVars >>

\* the update answers with an error
SaveFail ==
    /\ saveCalls # << >>
    /\ saveCalls' = Tail(saveCalls)
    /\ isSaving' = FALSE
    /\ editorEv' = "saveError"
    /\ editorArg' = 0
    /\ UNCHANGED << geofenceLoaded, vertices, originalVertices, isEditing, hasChanges,
                    editorFetch >>
    /\ UNCHANGED << libCall, dispatchVars, storePolygon, gateVars, flowVars >>

NextEditor ==
    \/ \E ok \in BOOLEAN : EditorFetchGeofence(ok)
    \/ EditBoundary
    \/ \E pos \in EditorPoints : EditorMapClick(pos)
    \/ \E index \in 1..Len(vertices) : \E pos \in EditorPoints : VertexDrag(index, pos)
    \/ \E index \in 1..Len(vertices) : VertexContextMenu(index)
    \/ handleReset
    \/ handleClear
    \/ Cancel
    \/ SaveClick
    \/ SaveSucceed
    \/ SaveFail

\* the editor with handleSave also called where its button is disabled
NextEditorCalls ==
    \/ NextEditor
    \/ SaveCall

(***************************************************************************)
(* lib/geolocation.ts, each function called on its own.                    *)
(***************************************************************************)
\* the square [(0,0),(0,10),(10,10),(10,0)] in (lat, lng)
Square == << Pt(0, 0), Pt(0, 10), Pt(10, 10), Pt(10, 0) >>

\* vertices of the polygons too short to enclose anything
ShortPolygonPoints == { Pt(0, 0), Pt(0, 10), Pt(10, 10), Pt(5, 5) }

RECURSIVE SeqsUpTo(_, _)
\* the sequences over S of length at most n
SeqsUpTo(S, n) ==
    IF n = 0 THEN { << >> }
    ELSE LET shorter == SeqsUpTo(S, n - 1)
         IN  shorter \cup { Append(q, x) : q \in { r \in shorter : Len(r) = n - 1 }, x \in S }

ShortPolygons == SeqsUpTo(ShortPolygonPoints, MaxShortPolygon)

\* polygons with a vertex repeated
DegeneratePolygons ==
    { << Pt(0, 0), Pt(0, 0), Pt(10, 10) >>,
      << Pt(0, 10), Pt(10, 10), Pt(10, 10), Pt(5, 5) >> }

LibPolygons == ShortPolygons \cup { Square, PilarVillage } \cup DegeneratePolygons

\* the integer points of the square and of a margin around it, and (20,20)
LibPoints ==
    { Pt(a, b) : a \in (0 - GridMargin)..(10 + GridMargin),
                 b \in (0 - GridMargin)..(10 + GridMargin) } \cup { Pt(20, 20) }

\* distances in metres, a quarter of a kilometre apart, negative ones included
FareDistances == { 250 * q : q \in (0 - 4 * MaxFareKm)..(4 * MaxFareKm) }

TripTypes == { "village", "outbound" }

NoCall == [fn |-> "none", done |-> FALSE]

\* the calls made: arguments drawn, result not yet computed
LibCalls ==
    { [fn |-> "isPointInPolygon", point |-> pt, polygon |-> poly, done |-> FALSE] :
        pt \in LibPoints, poly \in LibPolygons }
    \cup
    { [fn |-> "calculateFare", tripType |-> t, distanceM |-> d, done |-> FALSE] :
        t \in TripTypes, d \in FareDistances }

\* the points calculateDistance is evaluated at
DistancePoints == { r[1] : r \in DistanceRows }

DistanceCalls ==
    { [fn |-> "calculateDistance", point1 |-> p1, point2 |-> p2, done |-> FALSE] :
        p1 \in DistancePoints, p2 \in DistancePoints }

InitGeolocation ==
    /\ libCall \in LibCalls \cup DistanceCalls
    /\ storePolygon = PilarVillage
    /\ InitDispatch
    /\ InitGate
    /\ InitFlow
    /\ InitEditor

ApplyIsPointInPolygon ==
    /\ libCall.fn = "isPointInPolygon"
    /\ ~libCall.done
    /\ libCall' = [fn |-> "isPointInPolygon", point |-> libCall.point,
                   polygon |-> libCall.polygon, done |-> TRUE,
                   result |-> isPointInPolygon(libCall.point, libCall.polygon)]
    /\ UNCHANGED << storePolygon, dispatchVars, gateVars, flowVars, editorVars >>

ApplyCalculateFare ==
    /\ libCall.fn = "calculateFare"
    /\ ~libCall.done
    /\ libCall' = [fn |-> "calculateFare", tripType |-> libCall.tripType,
                   distanceM |-> libCall.distanceM, done |-> TRUE,
                   result |-> calculateFare(libCall.tripType, libCall.distanceM)]
    /\ UNCHANGED << storePolygon, dispatchVars, gateVars, flowVars, editorVars >>

ApplyCalculateDistance ==
    /\ libCall.fn = "calculateDistance"
    /\ ~libCall.done
    /\ libCall' = [fn |-> "calculateDistance", point1 |-> libCall.point1,
                   point2 |-> libCall.point2, done |-> TRUE,
                   result |-> calculateDistance(libCall.point1, libCall.point2)]
    /\ UNCHANGED << storePolygon, dispatchVars, gateVars, flowVars, editorVars >>

NextGeolocation ==
    \/ ApplyIsPointInPolygon
    \/ ApplyCalculateFare
    \/ ApplyCalculateDistance

(***************************************************************************)
(* Dispatch: one booking between the flow, the store and the dashboards.   *)
(***************************************************************************)
\* the row exists once the insert of handleConfirmBooking has answered
RowExists == bookingId # NullStr

\* the policies for UPDATE on bookings: the driver the row is assigned to,
\* or an admin
UpdateAllowed(user) == user = AdminUser \/ bookingRow.driver_id = user

Joined == subscription # Null /\ subscription.joined

\* an UPDATE of the row reaches the flow's channel only if it has joined
Publish(row) == IF Joined THEN Append(channel, row) ELSE channel

\* every dashboard's channel calls fetchBookings on a change of the table
Refetch == [d \in DashboardUsers |-> TRUE]

\* fetchBookings of a dashboard answers: the rows with status 'pending'
fetchBookings(d) ==
    /\ dashFetch[d]
    /\ dashFetch' = [dashFetch EXCEPT ![d] = FALSE]
    /\ pendingBookings' =
           [pendingBookings EXCEPT ![d] = RowExists /\ bookingRow.status = "pending"]
    /\ UNCHANGED << bookingRow, channel, storeEv >>
    /\ UNCHANGED << libCall, storePolygon, gateVars, flowVars, editorVars >>

\* Accept on a booking the dashboard lists: the update is filtered by id
\* alone and sets status and accepted_at, then fetchBookings is called
acceptBooking(d) ==
    /\ pendingBookings[d]
    /\ Len(channel) < MaxUndelivered
    /\ IF UpdateAllowed(d)
       THEN /\ bookingRow' = [bookingRow EXCEPT !.status = "accepted"]
            /\ channel' = Publish(bookingRow')
            /\ dashFetch' = Refetch
       ELSE /\ dashFetch' = [dashFetch EXCEPT ![d] = TRUE]
            /\ UNCHANGED << bookingRow, channel >>
    /\ storeEv' = StoreEvent("accept", d, bookingRow.status, UpdateAllowed(d), Joined)
    /\ UNCHANGED pendingBookings
    /\ UNCHANGED << libCall, storePolygon, gateVars, flowVars, editorVars >>

\* an admin, outside the dashboards, assigns a driver to the pending row
AssignDriver(driverId) ==
    /\ RowExists
    /\ bookingRow.status = "pending"
    /\ bookingRow.driver_id = NullStr
    /\ driverId # NullStr
    /\ Len(channel) < MaxUndelivered
    /\ bookingRow' = [bookingRow EXCEPT !.driver_id = driverId]
    /\ channel' = Publish(bookingRow')
    /\ dashFetch' = Refetch
    /\ storeEv' = StoreEvent("assign", NullStr, bookingRow.status, TRUE, Joined)
    /\ UNCHANGED pendingBookings
    /\ UNCHANGED << libCall, storePolygon, gateVars, flowVars, editorVars >>

\* the row is updated to 'completed', outside the dashboards
CompleteBooking ==
    /\ RowExists
    /\ bookingRow.status # "completed"
    /\ Len(channel) < MaxUndelivered
    /\ bookingRow' = [bookingRow EXCEPT !.status = "completed"]
    /\ channel' = Publish(bookingRow')
    /\ dashFetch' = Refetch
    /\ storeEv' = StoreEvent("complete", NullStr, bookingRow.status, TRUE, Joined)
    /\ UNCHANGED pendingBookings
    /\ UNCHANGED << libCall, storePolygon, gateVars, flowVars, editorVars >>

\* the flow's channel hands the oldest published UPDATE to its handler
Deliver ==
    /\ channel # << >>
    /\ Joined
    /\ (Head(channel).status = "accepted" /\ Head(channel).driver_id # NullStr) =>
           Len(lookups) < MaxLookups
    /\ channel' = Tail(channel)
    /\ handleBookingUpdate(Head(channel).status, Head(channel).driver_id)
    /\ MapLifecycle
    /\ flowEv' = FlowEvent("notify:" \o Head(channel).status, Null, Head(channel).driver_id)
    /\ UNCHANGED << pickupLocation, dropoffLocation, selectedStation, tripType, fare,
                    customerPhone, bookingId, assignedDriver, flowGeofence, flowStations,
                    flowFetch, insertCalls, insertCount, subscription >>
    /\ UNCHANGED << bookingRow, pendingBookings, dashFetch, storeEv >>
    /\ UNCHANGED << libCall, storePolygon, gateVars, editorVars >>

\* a customer books once; the row is then updated by the dashboards and by
\* admins, and the flow follows it through its channel
NextDispatch ==
    \/ \E ok \in BOOLEAN : FlowFetchGeofence(ok)
    \/ \E coords \in MapPoints : MapClick(coords)
    \/ ConfirmClick
    \/ InsertSucceed
    \/ SubscriptionJoined
    \/ \E i \in 1..Len(lookups) : \E found \in BOOLEAN : LookupAnswer(i, found)
    \/ \E d \in DashboardUsers : fetchBookings(d)
    \/ \E d \in DashboardUsers : acceptBooking(d)
    \/ \E driverId \in DriverIds : AssignDriver(driverId)
    \/ CompleteBooking
    \/ Deliver

(***************************************************************************)
(* Specifications.                                                         *)
(***************************************************************************)
StorePolygons == { PilarVillage, TrianglePolygon }

InitStore == storePolygon \in StorePolygons

Init ==
    /\ libCall = NoCall
    /\ InitStore
    /\ InitDispatch
    /\ InitGate
    /\ InitFlow
    /\ InitEditor

\* polygons the store may hold when the editor opens: one drawn on the
\* editor's points, and an empty one
EditorStorePolygons == { << Pt(0, 0), Pt(60, 80), Pt(0, 0) >>, << >> }

InitEditorStore ==
    /\ libCall = NoCall
    /\ storePolygon \in EditorStorePolygons
    /\ InitDispatch
    /\ InitGate
    /\ InitFlow
    /\ InitEditor

\* the location gate and Index, up to the hand-over to the booking flow
SpecGate == Init /\ [][NextGate]_vars

\* the booking flow, once Index renders it
SpecFlow == Init /\ [][NextFlow]_vars

\* the geofence editor of the admin dashboard
SpecEditor == InitEditorStore /\ [][NextEditor]_vars

\* the geofence editor, its handleSave called with any number of vertices
SpecEditorCalls == InitEditorStore /\ [][NextEditorCalls]_vars

\* one booking from its insert on, with the driver dashboards open
SpecDispatch == Init /\ [][NextDispatch]_vars

\* the functions of lib/geolocation.ts, each applied to arguments drawn at
\* the start
SpecGeolocation == InitGeolocation /\ [][NextGeolocation]_vars


(***************************************************************************)
(* Properties.                                                             *)
(***************************************************************************)

\* C1: handlePickupSelect leaves pickupLocation and step as they are for a
\* candidate outside the flow's geofence (every candidate, while no usable
\* geofence is loaded), and sets pickupLocation to the candidate and step
\* to 'dropoff' for one inside; so pickupLocation is always null or inside
\* the loaded geofence.
C1_PickupOnlyInsideGeofence ==
    /\ [](pickupLocation # Null => isPointInPolygon(pickupLocation, flowGeofence))
    /\ [][flowEv'.op = "pickupSelect" =>
            IF Len(flowGeofence) >= 3 /\ isPointInPolygon(flowEv'.coords, flowGeofence)
            THEN pickupLocation' = flowEv'.coords /\ step' = "dropoff"
            ELSE pickupLocation' = pickupLocation /\ step' = step]_vars

\* a pickup was accepted, after an earlier one had been taken back
C1_Witness ==
    /\ flowEv.op = "pickupSelect"
    /\ pickupLocation = flowEv.coords
    /\ step = "dropoff"
    /\ dropoffLocation # Null

\* C2: a check that obtained a position inside the geofence has called
\* onLocationVerified with that position, and the hand-over to the booking
\* flow is under way or done.
C2_InsideCheckVerifies ==
    (gateEv.op = "checkDone" /\ gateEv.outcome = "inside") =>
        /\ gateEv.called = gateEv.pos
        /\ userLocation = gateEv.pos
        /\ timerPending \/ isVerified

\* C3: after a rejected check the gate names the reason of that check alone:
\* after a failed acquisition error is set and the outside-boundary
\* indication is not; after a position outside the geofence error is null
\* and isInsideGeofence is false.
C3_RejectionNamesOneReason ==
    (GateMounted /\ gateEv.op = "checkDone") =>
        /\ gateEv.outcome = "failed" =>
             /\ error # NullStr
             /\ ~(coordinates # Null /\ isInsideGeofence = "false")
        /\ gateEv.outcome = "outside" =>
             /\ error = NullStr
             /\ isInsideGeofence = "false"

\* C4: after handleDropoffSelect with the id of a station marker, tripType
\* is 'outbound' and selectedStation is the station of that id.
C4_StationDropoffIsOutbound ==
    (flowEv.op = "dropoffSelect" /\ flowEv.id # NullStr) =>
        /\ tripType = "outbound"
        /\ selectedStation # Null
        /\ selectedStation.id = flowEv.id

\* C5: after handleDropoffSelect without a station id, dropoffLocation is
\* the candidate, step is 'confirm', selectedStation is null and tripType
\* is 'village' for a candidate inside the geofence, 'outbound' otherwise.
C5_MapDropoffClassified ==
    (flowEv.op = "dropoffSelect" /\ flowEv.id = NullStr) =>
        /\ dropoffLocation = flowEv.coords
        /\ step = "confirm"
        /\ selectedStation = Null
        /\ tripType = IF isPointInPolygon(flowEv.coords, flowGeofence)
                      THEN "village" ELSE "outbound"

\* a tap outside the geofence, after a station had been chosen and taken back
C5_Witness ==
    /\ flowEv.op = "dropoffSelect"
    /\ flowEv.id = NullStr
    /\ ~isPointInPolygon(flowEv.coords, flowGeofence)
    /\ tripType = "outbound"
    /\ selectedStation = Null
    /\ step = "confirm"

\* C6: the fare of every booking record handed to insert is calculateFare
\* of the record's trip type and of calculateDistance of the record's
\* pickup and drop-off.
C6_InsertedFareMatchesRecord ==
    \A k \in 1..Len(insertCalls) :
        insertCalls[k].fare =
            calculateFare(insertCalls[k].trip_type,
                          calculateDistance(insertCalls[k].pickup, insertCalls[k].dropoff))

\* the second insert of a flow, of a village trip between two points, after
\* fares of other trips had been shown
C6_Witness ==
    /\ Len(insertCalls) = 1
    /\ insertCount = 2
    /\ insertCalls[1].trip_type = "village"
    /\ insertCalls[1].fare = 30

\* C7: handleConfirmBooking with pickup and drop-off set issues one insert
\* of status 'pending' and sets step to 'searching' (without them: no
\* insert, step as it was); when the insert succeeds the flow's channel is
\* the one of the returned identifier, and a channel is never one of
\* another record than bookingId.
C7_ConfirmInsertsOnceAndSubscribes ==
    /\ [][flowEv'.op = "confirm" =>
            IF pickupLocation # Null /\ dropoffLocation # Null
            THEN /\ insertCount' = insertCount + 1
                 /\ Len(insertCalls') = Len(insertCalls) + 1
                 /\ insertCalls'[Len(insertCalls')].status = "pending"
                 /\ step' = "searching"
            ELSE /\ insertCount' = insertCount
                 /\ insertCalls' = insertCalls
                 /\ step' = step]_vars
    /\ [][flowEv'.op = "insertOk" =>
            /\ bookingId' = flowEv'.id
            /\ subscription' # Null
            /\ subscription'.id = flowEv'.id]_vars
    /\ [](subscription # Null => subscription.id = bookingId)

\* the second insert of a flow has succeeded and its channel is set up
C7_Witness ==
    /\ flowEv.op = "insertOk"
    /\ flowEv.id = "2"
    /\ subscription # Null
    /\ subscription.id = "2"
    /\ step = "searching"

\* C8: an 'accepted' notification with a driver reference starts the lookup
\* of that driver, and when the lookup returns the driver, assignedDriver
\* is that driver and step is 'matched'.
C8_AcceptedLeadsToMatched ==
    /\ [][(flowEv'.op = "notify:accepted" /\ flowEv'.id # NullStr) =>
            lookups' = Append(lookups, flowEv'.id)]_vars
    /\ [](flowEv.op = "driverFound" =>
            assignedDriver = Driver(flowEv.id) /\ step = "matched")

\* driver D2 was looked up and is shown
C8_Witness ==
    /\ flowEv.op = "driverFound"
    /\ flowEv.id = "D2"
    /\ assignedDriver = Driver("D2")
    /\ step = "matched"
    /\ subscription # Null

\* C9: a 'completed' notification sets step to 'complete', from 'searching'
\* and from 'matched'.
C9_CompletedLeadsToComplete ==
    [][(flowEv'.op = "notify:completed" /\ step \in { "searching", "matched" }) =>
            step' = "complete"]_vars

\* the ride of a matched driver was completed
C9_Witness ==
    /\ flowEv.op = "notify:completed"
    /\ step = "complete"
    /\ assignedDriver # Null

\* C10: when the update of handleSave has succeeded, the editor is in
\* Viewing and originalVertices equals vertices, both the polygon written
\* to the store.
C10_SaveSuccessCommitsCurrent ==
    editorEv = "saveOk" =>
        /\ ~isEditing
        /\ originalVertices = vertices
        /\ originalVertices = storePolygon

\* C11: when the update of handleSave answers with an error, the failure
\* changes neither originalVertices nor vertices nor the editing mode (an
\* editor in Editing stays in Editing) and writes nothing to the store.
C11_SaveFailureChangesNothing ==
    [][editorEv' = "saveError" =>
            /\ originalVertices' = originalVertices
            /\ vertices' = vertices
            /\ isEditing' = isEditing
            /\ storePolygon' = storePolygon]_vars

\* a save of an edited polygon failed and the editor is still editing it
C11_Witness ==
    /\ editorEv = "saveError"
    /\ isEditing
    /\ ~isSaving
    /\ Len(vertices) >= 3
    /\ vertices # originalVertices

\* C12: handleSave called while fewer than 3 vertices are held starts no
\* update, leaves originalVertices and vertices as they are and keeps the
\* editor in Editing.
C12_ShortSaveRefused ==
    [][(isEditing /\ Len(vertices) < 3 /\ editorEv' \in { "save", "saveRefused" }) =>
            /\ saveCalls' = saveCalls
            /\ isSaving' = isSaving
            /\ storePolygon' = storePolygon
            /\ originalVertices' = originalVertices
            /\ vertices' = vertices
            /\ isEditing']_vars

\* handleSave was refused for a loaded geofence cut down to two vertices
C12_Witness ==
    /\ editorEv = "saveRefused"
    /\ geofenceLoaded
    /\ isEditing
    /\ Len(vertices) = 2
    /\ Len(originalVertices) = 3
    /\ saveCalls = << >>

\* C13: a right-click on a vertex marker while 3 or fewer vertices are held
\* leaves vertices unchanged, and no right-click takes a polygon of 3 or
\* more vertices below 3.
C13_RemoveKeepsTriangle ==
    [][editorEv' \in { "contextmenu", "contextmenuRefused" } =>
            /\ Len(vertices) <= 3 => vertices' = vertices
            /\ Len(vertices) >= 3 => Len(vertices') >= 3]_vars

\* a right-click on a vertex of a triangle was refused
C13_Witness ==
    /\ editorEv = "contextmenuRefused"
    /\ isEditing
    /\ Len(vertices) = 3

\* C14: handleReset sets vertices to originalVertices, and leaves
\* originalVertices and the editing mode as they are.
C14_ResetRestoresBaseline ==
    [][editorEv' = "reset" =>
            /\ vertices' = originalVertices
            /\ originalVertices' = originalVertices
            /\ isEditing' = isEditing]_vars

\* the edits of a loaded polygon were reset
C14_Witness ==
    /\ editorEv = "reset"
    /\ isEditing
    /\ Len(originalVertices) = 3
    /\ vertices = originalVertices
    /\ ~hasChanges

\* C15: Cancel, available in Editing, sets vertices to originalVertices,
\* leaves originalVertices as it is, starts no update and writes nothing to
\* the store, and puts the editor in Viewing.
C15_CancelDiscardsEdits ==
    [][editorEv' = "cancel" =>
            /\ isEditing
            /\ vertices' = originalVertices
            /\ originalVertices' = originalVertices
            /\ saveCalls' = saveCalls
            /\ storePolygon' = storePolygon
            /\ ~isEditing']_vars

\* an editing session of a loaded polygon was cancelled
C15_Witness ==
    /\ editorEv = "cancel"
    /\ ~isEditing
    /\ Len(originalVertices) = 3
    /\ vertices = originalVertices
    /\ saveCalls = << >>

\* C16: after a load, a click, a drag, a removal, a clear, a reset, a
\* cancel or a successful save, hasChanges is true exactly when vertices
\* differs from originalVertices, whatever originalVertices is.
C16_DirtyFlagIsExact ==
    editorEv \in { "load", "click", "drag", "contextmenu", "clear", "reset", "cancel",
                   "saveOk" } =>
        hasChanges = (vertices # originalVertices)

\* C17: isPointInPolygon returns false for every point when the polygon
\* has fewer than 3 vertices.
C17_ShortPolygonHoldsNothing ==
    (libCall.fn = "isPointInPolygon" /\ libCall.done /\ Len(libCall.polygon) < 3) =>
        libCall.result = FALSE

\* a point beside the only edge of a two-vertex polygon was found outside
C17_Witness ==
    /\ libCall.fn = "isPointInPolygon"
    /\ libCall.done
    /\ libCall.polygon = << Pt(0, 0), Pt(10, 10) >>
    /\ libCall.point = Pt(2, 5)
    /\ libCall.result = FALSE

\* C18: for the square [(0,0),(0,10),(10,10),(10,0)], isPointInPolygon
\* returns true for every point strictly inside it and false for every
\* point strictly outside its bounding box.
C18_SquareInsideAndOutside ==
    (libCall.fn = "isPointInPolygon" /\ libCall.done /\ libCall.polygon = Square) =>
        LET lat == libCall.point.lat
            lng == libCall.point.lng
        IN  /\ (0 < lat /\ lat < 10 /\ 0 < lng /\ lng < 10) => libCall.result = TRUE
            /\ (lat < 0 \/ lat > 10 \/ lng < 0 \/ lng > 10) => libCall.result = FALSE

\* (5,5) was found inside the square
C18_Witness ==
    /\ libCall.fn = "isPointInPolygon"
    /\ libCall.done
    /\ libCall.polygon = Square
    /\ libCall.point = Pt(5, 5)
    /\ libCall.result = TRUE

\* C19: with the default Pilar Village polygon as the flow's geofence, a
\* pickup at (14.426, 120.988) is accepted and the step becomes 'dropoff',
\* and a pickup at (14.40, 120.95) leaves pickupLocation and step as they
\* are.
C19_DefaultPolygonPickups ==
    [][(flowGeofence = PilarVillage /\ flowEv'.op = "pickupSelect") =>
            /\ flowEv'.coords = In1 => (pickupLocation' = In1 /\ step' = "dropoff")
            /\ flowEv'.coords = Out1 => (pickupLocation' = pickupLocation /\ step' = step)]_vars

\* the pickup at (14.40, 120.95) was rejected under the default polygon
C19_Witness ==
    /\ flowEv.op = "pickupSelect"
    /\ flowEv.coords = Out1
    /\ flowGeofence = PilarVillage
    /\ step = "pickup"
    /\ pickupLocation = Null

\* C20: for a distance d >= 0, calculateFare is the base fare (20 for
\* 'village', 40 for 'outbound') plus 10 for every kilometre begun;
\* village/0 is 20, village/1.5 is 40, outbound/0 is 40; and the fare is
\* never below the base fare, negative distances included.
C20_FareIsBasePlusCeil ==
    (libCall.fn = "calculateFare" /\ libCall.done) =>
        LET base == IF libCall.tripType = "village" THEN 20 ELSE 40
            d == libCall.distanceM
        IN  /\ d >= 0 =>
                \E k \in 0..(MaxFareKm + 1) :
                    /\ 1000 * (k - 1) < d
                    /\ d <= 1000 * k
                    /\ libCall.result = base + 10 * k
            /\ (libCall.tripType = "village" /\ d = 0) => libCall.result = 20
            /\ (libCall.tripType = "village" /\ d = 1500) => libCall.result = 40
            /\ (libCall.tripType = "outbound" /\ d = 0) => libCall.result = 40
            /\ libCall.result >= base

\* the fare of a village trip of 1.5 km was computed
C20_Witness ==
    /\ libCall.fn = "calculateFare"
    /\ libCall.done
    /\ libCall.tripType = "village"
    /\ libCall.distanceM = 1500
    /\ libCall.result = 40

\* C21: when the position request of a check is rejected, isLoading is
\* false, error is the fixed message of the failure (one each for
\* permission denied, position unavailable, timeout and another code, and
\* 'Failed to get your location' for a failure that is no
\* GeolocationPositionError), coordinates and isInsideGeofence are as
\* before, and onLocationVerified is not called.
C21_FailureSetsCategoryMessage ==
    [][(GateMounted /\ gateEv'.op = "checkDone" /\ gateEv'.outcome = "failed") =>
            /\ isLoading' = FALSE
            /\ error' =
                 CASE gateEv'.failure = "PERMISSION_DENIED" ->
                        "Location permission denied. Please enable location access in your browser settings."
                   [] gateEv'.failure = "POSITION_UNAVAILABLE" ->
                        "Location information is unavailable. Please try again."
                   [] gateEv'.failure = "TIMEOUT" ->
                        "Location request timed out. Please try again."
                   [] gateEv'.failure = "OTHER_CODE" ->
                        "An unknown error occurred while getting your location."
                   [] gateEv'.failure = "NOT_SUPPORTED" ->
                        "Failed to get your location"
            /\ coordinates' = coordinates
            /\ isInsideGeofence' = isInsideGeofence
            /\ gateEv'.called = Null
            /\ userLocation' = userLocation]_vars

\* a check failed in a browser without geolocation, after an earlier check
\* had obtained a position
C21_Witness ==
    /\ gateEv.op = "checkDone"
    /\ gateEv.outcome = "failed"
    /\ gateEv.failure = "NOT_SUPPORTED"
    /\ error = "Failed to get your location"
    /\ ~isLoading
    /\ coordinates # Null

C25_OneRequestInFlight ==
    GateMounted =>
        /\ Len(pending) <= 1
        /\ isLoading = (pending # << >>)

\* C23: once the completion view is shown for a booking, the flow does not
\* go back to the matched view for that booking.
C23_CompleteNeverBackToMatched ==
    [][(step = "complete" /\ bookingId' = bookingId) => step' # "matched"]_vars

\* C24: in a new booking attempt, before its booking exists, no
\* notification and no answer of a driver query changes step or
\* assignedDriver.
C24_NewAttemptUntouchedByOldBooking ==
    [][(bookingId = NullStr
          /\ flowEv'.op \in { "driverFound", "driverMissing" }
                             \cup { "notify:" \o status : status \in BookingStatuses }) =>
            /\ step' = step
            /\ assignedDriver' = assignedDriver]_vars

\* C26: what handleDropoffSelect leaves in tripType and selectedStation is
\* the same whatever tripType and selectedStation held before the call.
C26_DropoffClassificationNotSticky ==
    [][flowEv'.op = "dropoffSelect" =>
            \A oldTripType \in TripTypes :
                \A oldStation \in { Null, StationS1, StationS2 } :
                    dropoffOutcome(flowEv'.coords, flowEv'.id, oldTripType, oldStation)
                        = [tripType |-> tripType', selectedStation |-> selectedStation']]_vars

\* C27: a notification of status 'pending', 'in_progress' or 'cancelled', or
\* of status 'accepted' without driver_id, changes neither step nor
\* assignedDriver, and starts no driver query.
C27_OtherStatusesChangeNothing ==
    [][(\/ flowEv'.op \in { "notify:pending", "notify:in_progress", "notify:cancelled" }
        \/ flowEv'.op = "notify:accepted" /\ flowEv'.id = NullStr) =>
            /\ step' = step
            /\ assignedDriver' = assignedDriver
            /\ lookups' = lookups]_vars

\* a cancellation was delivered while the matched view was shown
C27_Witness ==
    /\ flowEv.op = "notify:cancelled"
    /\ step = "matched"
    /\ assignedDriver # Null

\* C28: when the insert fails the step becomes 'confirm'; pickup,
\* drop-off, trip type, fare and bookingId (null) are unchanged; there is
\* no subscription; and an insert is issued only by a confirmation.
C28_InsertFailureReturnsToConfirm ==
    /\ [][flowEv'.op = "insertError" =>
            /\ step' = "confirm"
            /\ pickupLocation' = pickupLocation
            /\ dropoffLocation' = dropoffLocation
            /\ tripType' = tripType
            /\ fare' = fare
            /\ bookingId = NullStr
            /\ bookingId' = NullStr
            /\ subscription' = Null
            /\ insertCount' = insertCount
            /\ insertCalls' = << >>]_vars
    /\ [][insertCount' # insertCount => flowEv'.op = "confirm"]_vars

\* an insert failed and the confirmation view is back, the trip as it was
C28_Witness ==
    /\ flowEv.op = "insertError"
    /\ step = "confirm"
    /\ pickupLocation # Null
    /\ dropoffLocation # Null
    /\ fare > 0
    /\ insertCalls = << >>
    /\ insertCount = 1

\* C29: handleSave reports its validation error only when fewer than 3
\* vertices are held: with 3 or more it sends the update.
C29_OnlyVertexCountRefusesSave ==
    editorEv = "saveRefused" => Len(vertices) < 3

\* C30: a removal at index i with more than 3 vertices held leaves the
\* vertices before i in place and every later one moved down by one, and
\* changes neither originalVertices nor the editing mode.
C30_RemoveDeletesExactlyThatVertex ==
    [][editorEv' = "contextmenu" =>
            /\ Len(vertices) > 3
            /\ editorArg' \in 1..Len(vertices)
            /\ Len(vertices') = Len(vertices) - 1
            /\ \A j \in 1..Len(vertices') :
                   vertices'[j] = IF j < editorArg' THEN vertices[j] ELSE vertices[j + 1]
            /\ originalVertices' = originalVertices
            /\ isEditing' = isEditing]_vars

\* the first of four vertices, unlike the last, was removed
C30_Witness ==
    /\ editorEv = "contextmenu"
    /\ editorArg = 1
    /\ isEditing
    /\ vertices = << Pt(60, 80), Pt(0, 0), Pt(60, 80) >>
    /\ originalVertices = << Pt(0, 0), Pt(60, 80), Pt(0, 0) >>

C32_VerifiedPositionIsCurrent ==
    (gateEv.op = "checkDone" /\ gateEv.called # Null) =>
        /\ gateEv.called = gateEv.pos
        /\ isPointInPolygon(gateEv.called, gateGeofence)

\* C36: step 'dropoff' and later have a pickup, step 'confirm' and later a
\* drop-off, steps 'matched' and 'complete' a booking id, and step
\* 'matched' a driver.
C36_StepsHaveTheirData ==
    /\ step \in { "dropoff", "confirm", "searching", "matched", "complete" } =>
           pickupLocation # Null
    /\ step \in { "confirm", "searching", "matched", "complete" } => dropoffLocation # Null
    /\ step \in { "matched", "complete" } => bookingId # NullStr
    /\ step = "matched" => assignedDriver # Null

\* C37: the store's polygon changes only when an update of handleSave
\* succeeds, and every polygon sent to the store or written to it has at
\* least 3 vertices.
C37_StoreWrittenOnlyBySaveOfPolygon ==
    /\ [](\A k \in 1..Len(saveCalls) : Len(saveCalls[k]) >= 3)
    /\ [][storePolygon' # storePolygon =>
            /\ editorEv' = "saveOk"
            /\ Len(storePolygon') >= 3]_vars

\* a save succeeded after the vertices had been cleared while it was pending
C37_Witness ==
    /\ editorEv = "saveOk"
    /\ vertices = << >>
    /\ Len(storePolygon) >= 3

\* C38: while the editor is in Editing, vertices changes only by a click,
\* a drag, a removal, a clear, a reset or the cancel that ends the session.
C38_EditingVerticesChangeOnlyByEdits ==
    [][(isEditing /\ vertices' # vertices) =>
            editorEv' \in { "click", "drag", "contextmenu", "clear", "reset", "cancel" }]_vars

\* C39: in Viewing a click on the map, a drag or a right-click changes
\* neither vertices nor originalVertices.
C39_ViewingIgnoresMapEvents ==
    [][(~isEditing
          /\ editorEv' \in { "click", "drag", "contextmenu", "contextmenuRefused" }) =>
            /\ vertices' = vertices
            /\ originalVertices' = originalVertices]_vars

\* the map was clicked while a loaded polygon was viewed
C39_Witness ==
    /\ editorEv = "click"
    /\ ~isEditing
    /\ Len(vertices) = 3
    /\ vertices = originalVertices

\* C40: in isPointInPolygon the quotient is evaluated only for an edge
\* whose two longitudes differ.
C40_QuotientNeverDividesByZero ==
    (libCall.fn = "isPointInPolygon" /\ libCall.done /\ Len(libCall.polygon) >= 3) =>
        \A i \in 1..Len(libCall.polygon) :
            LET vi == libCall.polygon[i]
                vj == libCall.polygon[IF i = 1 THEN Len(libCall.polygon) ELSE i - 1]
            IN  QuotientEvaluated(libCall.point, vi, vj) => vj.lng # vi.lng

\* a point was tested against a polygon with a repeated vertex, beside the
\* edge that joins the vertex to itself
C40_Witness ==
    /\ libCall.fn = "isPointInPolygon"
    /\ libCall.done
    /\ libCall.polygon = << Pt(0, 0), Pt(0, 0), Pt(10, 10) >>
    /\ libCall.point = Pt(2, 0)

\* C33: once an acceptBooking for a pending booking has been sent while the
\* flow's channel was joined, and every published event and driver query
\* has been handled, the flow shows step 'matched'.
C33_AcceptedBookingGetsMatched ==
    (/\ storeEv.op = "accept"
     /\ storeEv.from = "pending"
     /\ storeEv.joined
     /\ channel = << >>
     /\ lookups = << >>) => step = "matched"

\* C34: an acceptBooking that changes the row finds it with status
\* 'pending'.
C34_AcceptOnlyFromPending ==
    (storeEv.op = "accept" /\ storeEv.applied) => storeEv.from = "pending"

\* C35: once the row has status 'completed', the channel has joined and
\* every published event and driver query has been handled, the flow shows
\* step 'complete'.
C35_CompletedBookingShowsComplete ==
    (/\ RowExists
     /\ bookingRow.status = "completed"
     /\ Joined
     /\ channel = << >>
     /\ lookups = << >>) => step = "complete"

=============================================================================
